---------------------------- MODULE Spec2Model ----------------------------
(***************************************************************************)
(* Model of package config (internal/config/config.go): MustLoad resolves  *)
(* the configuration path from CONFIG_PATH or the -config flag, checks     *)
(* that the file exists, lets cleanenv.ReadConfig parse it and apply the   *)
(* environment overrides and the env-required checks, and returns the      *)
(* populated Config or ends the process.                                   *)
(*                                                                         *)
(* The process environment, the command line and the file system are the   *)
(* inputs; Init draws them from small sets.  One invocation of MustLoad is *)
(* a run of the actions GetenvConfigPath .. Return.  SpecTwice starts the  *)
(* program again on the same inputs.                                       *)
(***************************************************************************)
EXTENDS Naturals, Sequences, FiniteSets, TLC

VARIABLES
    environ,     \* process environment: name -> [set, val]
    args,        \* command line after the program name (os.Args[1:])
    fs,          \* file system: path -> [state, env, storage_path, addr]
    pc,          \* position of MustLoad
    cfgPath,     \* local cfgPath (line 29)
    cfg,         \* local cfg (line 53), Nil before it is declared
    result,      \* value behind the returned *Config, Nil when none returned
    exit,        \* <<>> while the process lives, <<code>> once it has exited
    stderr,      \* diagnostics written to standard error, in order
    flagParsed,  \* flag.Parse has been called (lines 37-38)
    statted,     \* paths handed to os.Stat, in order
    opened,      \* paths handed to cleanenv.ReadConfig, in order
    run,         \* number of the current invocation of the program
    prev         \* outcome of the previous invocation, Nil for the first

vars == <<environ, args, fs, pc, cfgPath, cfg, result, exit, stderr,
          flagParsed, statted, opened, run, prev>>

inputs == <<environ, args, fs>>

-----------------------------------------------------------------------------
(* Bounds and input sets *)

MaxRuns == 2

Nil == [nil |-> TRUE]

Paths == {"a.yaml", "b.yaml"}

EnvNames == {"CONFIG_PATH", "ENV", "STORAGE_PATH"}

Unset == [set |-> FALSE, val |-> ""]

SetTo(v) == [set |-> TRUE, val |-> v]

Environments ==
    { [n \in EnvNames |->
          CASE n = "CONFIG_PATH"  -> cp
            [] n = "ENV"          -> ev
            [] n = "STORAGE_PATH" -> sp] :
      cp \in {Unset, SetTo(""), SetTo("a.yaml"), SetTo("b.yaml")},
      ev \in {Unset, SetTo(""), SetTo("staging")},
      sp \in {Unset, SetTo("/env")} }

\* Tokens the flag package treats as flags it does not know, and -h.
UndefinedFlags == {"-v"}

HelpFlags == {"-h"}

CommandLines ==
    { <<>>,
      <<"-config", "a.yaml">>,
      <<"-config", "b.yaml">>,
      <<"-config", "">>,
      <<"-config">>,
      <<"-v">>,
      <<"-h">>,
      <<"-v", "-config", "a.yaml">> }

\* A file: absent, present but not openable, present with content that the
\* YAML decoder rejects, or present with the three keys ("" = key absent).
Files ==
    { [state |-> s, env |-> "", storage_path |-> "", addr |-> ""] :
          s \in {"missing", "unreadable", "malformed"} }
    \cup
    { [state |-> "ok", env |-> e, storage_path |-> sp, addr |-> a] :
          e \in {"", "prod"}, sp \in {"", "/data"}, a \in {"", ":8080"} }

FileSystems == [Paths -> Files]


-----------------------------------------------------------------------------
(* Library calls MustLoad makes *)

\* os.Getenv: the value, "" when the variable is not set.
Getenv(name) == IF environ[name].set THEN environ[name].val ELSE ""

\* os.LookupEnv: the value and whether the variable is set at all.
LookupEnv(name) == environ[name]

\* flag.Parse on the command line with the one flag "config" defined
\* (string, default "").  The command line flag set exits the process on a
\* parse error: status 2, or 0 when the error is a request for help.
RECURSIVE ParseArgs(_, _)
ParseArgs(a, cur) ==
    IF a = <<>>
    THEN [err |-> "", code |-> 0, config |-> cur]
    ELSE IF Head(a) = "-config"
    THEN IF Len(a) >= 2
         THEN ParseArgs(SubSeq(a, 3, Len(a)), a[2])
         ELSE [err |-> "flag needs an argument: -config", code |-> 2,
               config |-> cur]
    ELSE IF Head(a) \in HelpFlags
    THEN [err |-> "Usage:", code |-> 0, config |-> cur]
    ELSE IF Head(a) \in UndefinedFlags
    THEN [err |-> "flag provided but not defined: " \o Head(a), code |-> 2,
          config |-> cur]
    ELSE [err |-> "", code |-> 0, config |-> cur]

FlagParse(a) == ParseArgs(a, "")

\* os.Stat: what the file system holds at the path.
Stat(path) == IF path \in DOMAIN fs THEN fs[path].state ELSE "missing"

\* Faulty variant: the existence check never fires.
IsNotExist_Never(st) == FALSE

\* os.IsNotExist(err) on the error of os.Stat.
IsNotExist(st) == st = "missing"

\* Faulty variant: the flag is consulted whatever CONFIG_PATH holds.
EnvPathEmpty_Always(p) == TRUE

\* line 35: CONFIG_PATH gave no path, the flag is consulted.
EnvPathEmpty(p) == p = ""

\* Faulty variant: an empty flag value is taken as a path.
FlagPathEmpty_Never(p) == FALSE

\* line 41: the flag gave no path either.
FlagPathEmpty(p) == p = ""

\* The three diagnostics of MustLoad (lines 43, 49, 60).
MsgNoPath == "Config path is not set. Use CONFIG_PATH env or -config flag"

\* Faulty variant of the second one: the path is left out.
MsgNotExist_NoPath(path) == "Config file does not exist: "

MsgNotExist(path) == "Config file does not exist: " \o path

MsgCannotRead(e) == "Cannot read config file: " \o e

\* line 53: var cfg Config, the zero value.
ZeroConfig == [Env |-> "", StoragePath |-> "", Addr |-> ""]

\* Faulty variant: storage_path carries an env tag as well.
Meta_StorageEnv ==
    << [field |-> "Env",         envList |-> <<"ENV">>, required |-> TRUE],
       [field |-> "StoragePath", envList |-> <<"STORAGE_PATH">>,
        required |-> TRUE],
       [field |-> "Addr",        envList |-> <<>>,      required |-> FALSE] >>

\* Faulty variant: the fields are visited in an order that differs from one
\* invocation to the next.
Meta_RunOrder ==
    IF run = 1
    THEN << [field |-> "Env",         envList |-> <<"ENV">>, required |-> TRUE],
            [field |-> "StoragePath", envList |-> <<>>, required |-> TRUE],
            [field |-> "Addr",        envList |-> <<>>, required |-> FALSE] >>
    ELSE << [field |-> "StoragePath", envList |-> <<>>, required |-> TRUE],
            [field |-> "Env",         envList |-> <<"ENV">>, required |-> TRUE],
            [field |-> "Addr",        envList |-> <<>>, required |-> FALSE] >>

\* The fields of Config as cleanenv sees them through the struct tags, in
\* declaration order, the embedded HttpServer last.
Meta ==
    << [field |-> "Env",         envList |-> <<"ENV">>, required |-> TRUE],
       [field |-> "StoragePath", envList |-> <<>>,      required |-> TRUE],
       [field |-> "Addr",        envList |-> <<>>,      required |-> FALSE] >>

ErrRequired(field) ==
    "field \"" \o field \o "\" is required but the value is not provided"

ErrParse == "config file parsing error"

ErrOpen(path) == "open " \o path

\* cleanenv parseFile: open the file and decode the YAML document into c;
\* a key of the document sets its field, an absent key leaves it alone.
ParseFile(path, c) ==
    LET st == Stat(path)
    IN  IF st \in {"missing", "unreadable"}
        THEN [err |-> ErrOpen(path), cfg |-> c]
        ELSE IF st = "malformed"
        THEN [err |-> ErrParse, cfg |-> c]
        ELSE [err |-> "",
              cfg |-> [Env         |-> IF fs[path].env # ""
                                       THEN fs[path].env ELSE c.Env,
                       StoragePath |-> IF fs[path].storage_path # ""
                                       THEN fs[path].storage_path
                                       ELSE c.StoragePath,
                       Addr        |-> IF fs[path].addr # ""
                                       THEN fs[path].addr ELSE c.Addr]]

\* The first variable of the field's env list that is set, if any.
RECURSIVE LookupFirst(_)
LookupFirst(envList) ==
    IF envList = <<>> THEN Unset
    ELSE IF LookupEnv(Head(envList)).set THEN LookupEnv(Head(envList))
    ELSE LookupFirst(Tail(envList))

\* Faulty variant: a value from the file is kept over the variable.
FieldStep_KeepFile(c, m) ==
    LET raw == LookupFirst(m.envList)
    IN  IF ~raw.set /\ m.required /\ c[m.field] = ""
        THEN [err |-> ErrRequired(m.field), cfg |-> c]
        ELSE IF ~raw.set \/ c[m.field] # ""
        THEN [err |-> "", cfg |-> c]
        ELSE [err |-> "", cfg |-> [c EXCEPT ![m.field] = raw.val]]

\* cleanenv readEnvVars, one field: a set variable is written to the field;
\* without one, a required field that is still zero is an error.
FieldStep(c, m) ==
    LET raw == LookupFirst(m.envList)
    IN  IF ~raw.set /\ m.required /\ c[m.field] = ""
        THEN [err |-> ErrRequired(m.field), cfg |-> c]
        ELSE IF ~raw.set
        THEN [err |-> "", cfg |-> c]
        ELSE [err |-> "", cfg |-> [c EXCEPT ![m.field] = raw.val]]

\* cleanenv readEnvVars: the fields in order, stopping at the first error.
RECURSIVE ReadEnvVarsFrom(_, _)
ReadEnvVarsFrom(c, i) ==
    IF i > Len(Meta) THEN [err |-> "", cfg |-> c]
    ELSE LET r == FieldStep(c, Meta[i])
         IN  IF r.err # "" THEN r ELSE ReadEnvVarsFrom(r.cfg, i + 1)

ReadEnvVars(c) == ReadEnvVarsFrom(c, 1)

\* cleanenv.ReadConfig: parseFile, then readEnvVars unless parsing failed.
ReadConfig(path, c) ==
    LET p == ParseFile(path, c)
    IN  IF p.err # "" THEN p ELSE ReadEnvVars(p.cfg)

-----------------------------------------------------------------------------
(* MustLoad *)

Init ==
    /\ environ \in Environments
    /\ args \in CommandLines
    /\ fs \in FileSystems
    /\ pc = "start"
    /\ cfgPath = ""
    /\ cfg = Nil
    /\ result = Nil
    /\ exit = <<>>
    /\ stderr = <<>>
    /\ flagParsed = FALSE
    /\ statted = <<>>
    /\ opened = <<>>
    /\ run = 1
    /\ prev = Nil

\* log.Fatal / log.Fatalf: write the message, os.Exit(1).
Fatal(msg) ==
    /\ stderr' = Append(stderr, msg)
    /\ exit' = <<1>>
    /\ pc' = "terminated"

\* line 32: cfgPath = os.Getenv("CONFIG_PATH"), and the test of line 35.
GetenvConfigPath ==
    /\ pc = "start"
    /\ cfgPath' = Getenv("CONFIG_PATH")
    /\ pc' = IF EnvPathEmpty(cfgPath') THEN "flags" ELSE "stat"
    /\ UNCHANGED <<inputs, cfg, result, exit, stderr, flagParsed, statted,
                   opened, run, prev>>

\* lines 35-45: define and parse the flag, take its value, fail when empty.
ParseFlag ==
    /\ pc = "flags"
    /\ flagParsed' = TRUE
    /\ LET r == FlagParse(args)
       IN  IF r.err # ""
           THEN /\ stderr' = Append(stderr, r.err)
                /\ exit' = <<r.code>>
                /\ pc' = "terminated"
                /\ UNCHANGED cfgPath
           ELSE /\ cfgPath' = r.config
                /\ IF FlagPathEmpty(cfgPath')
                   THEN Fatal(MsgNoPath)
                   ELSE /\ pc' = "stat"
                        /\ UNCHANGED <<exit, stderr>>
    /\ UNCHANGED <<inputs, cfg, result, statted, opened, run, prev>>

\* lines 48-50: os.Stat(cfgPath), fail when the file does not exist.
StatFile ==
    /\ pc = "stat"
    /\ statted' = Append(statted, cfgPath)
    /\ IF IsNotExist(Stat(cfgPath))
       THEN Fatal(MsgNotExist(cfgPath))
       ELSE /\ pc' = "read"
            /\ UNCHANGED <<exit, stderr>>
    /\ UNCHANGED <<inputs, cfgPath, cfg, result, flagParsed, opened, run,
                   prev>>

\* lines 53-61: var cfg Config; cleanenv.ReadConfig(cfgPath, &cfg).
ReadConfigFile ==
    /\ pc = "read"
    /\ opened' = Append(opened, cfgPath)
    /\ LET r == ReadConfig(cfgPath, ZeroConfig)
       IN  /\ cfg' = r.cfg
           /\ IF r.err # ""
              THEN Fatal(MsgCannotRead(r.err))
              ELSE /\ pc' = "return"
                   /\ UNCHANGED <<exit, stderr>>
    /\ UNCHANGED <<inputs, cfgPath, result, flagParsed, statted, run, prev>>

\* line 64: return &cfg.
Return ==
    /\ pc = "return"
    /\ result' = cfg
    /\ pc' = "loaded"
    /\ UNCHANGED <<inputs, cfgPath, cfg, exit, stderr, flagParsed, statted,
                   opened, run, prev>>

Terminal == pc \in {"loaded", "terminated"}

Outcome == [pc |-> pc, result |-> result, exit |-> exit, stderr |-> stderr]

\* The program is started again with the same environment, command line
\* and files: a new process, nothing of the old one is kept.
Restart ==
    /\ Terminal
    /\ run < MaxRuns
    /\ run' = run + 1
    /\ prev' = Outcome
    /\ pc' = "start"
    /\ cfgPath' = ""
    /\ cfg' = Nil
    /\ result' = Nil
    /\ exit' = <<>>
    /\ stderr' = <<>>
    /\ flagParsed' = FALSE
    /\ statted' = <<>>
    /\ opened' = <<>>
    /\ UNCHANGED inputs

MustLoad ==
    \/ GetenvConfigPath
    \/ ParseFlag
    \/ StatFile
    \/ ReadConfigFile
    \/ Return

Next == MustLoad

Spec == Init /\ [][Next]_vars

\* MustLoad is straight-line code: it keeps running until it returns or
\* the process exits.
FairSpec == Spec /\ WF_vars(Next)

NextTwice == MustLoad \/ Restart

SpecTwice == Init /\ [][NextTwice]_vars

-----------------------------------------------------------------------------
(* What the inputs say, read off the environment, the command line and the *)
(* files without going through the program.                                *)

EnvConfigPath ==
    IF environ["CONFIG_PATH"].set THEN environ["CONFIG_PATH"].val ELSE ""

ConfigFlagAt(a) == {i \in 1..Len(a) : a[i] = "-config"}

ConfigFlagAbsent(a) == ConfigFlagAt(a) = {}

LastConfigFlag(a) ==
    CHOOSE i \in ConfigFlagAt(a) : \A j \in ConfigFlagAt(a) : j <= i

\* The -config flag is given with a value; its last occurrence counts.
ConfigFlagHasValue(a) ==
    ~ConfigFlagAbsent(a) /\ LastConfigFlag(a) < Len(a)

ConfigFlagValue(a) ==
    IF ConfigFlagHasValue(a) THEN a[LastConfigFlag(a) + 1] ELSE ""

ConfigFlagAbsentOrEmpty(a) ==
    ConfigFlagAbsent(a) \/ (ConfigFlagHasValue(a) /\ ConfigFlagValue(a) = "")

\* The command line is one the flag package rejects or answers with usage.
CommandLineRejected(a) ==
    \/ \E i \in 1..Len(a) : a[i] \in UndefinedFlags \cup HelpFlags
    \/ ~ConfigFlagAbsent(a) /\ ~ConfigFlagHasValue(a)

\* The path the spec's resolution order selects, "" when there is none.
ExpectedPath ==
    IF EnvConfigPath # "" THEN EnvConfigPath
    ELSE IF CommandLineRejected(args) THEN ""
    ELSE ConfigFlagValue(args)

EnvOverride == environ["ENV"]

\* The field values after YAML parsing and environment override.
ExpectedEnv(f) == IF EnvOverride.set THEN EnvOverride.val ELSE f.env

RequiredFieldEmpty(f) == ExpectedEnv(f) = "" \/ f.storage_path = ""

PathResolved == pc \notin {"start", "flags"} /\ cfgPath # ""

RequiredFields == {"Env", "StoragePath"}

-----------------------------------------------------------------------------
(* Claims *)

\* C1: whenever MustLoad has returned a Config, its Env and StoragePath are
\* both non-empty, whatever the file and the environment hold, ENV set to
\* the empty string included.
C1_RequiredNonEmptyAfterLoad ==
    pc = "loaded" => result.Env # "" /\ result.StoragePath # ""

\* C2: path resolution is first match wins.  With CONFIG_PATH non-empty the
\* flag is never parsed and the path given to os.Stat and to ReadConfig is
\* the CONFIG_PATH value; the flag's value is the path only when
\* CONFIG_PATH is empty, and then it is non-empty.
C2_FirstMatchWins ==
    /\ EnvConfigPath # "" => ~flagParsed
    /\ \A i \in 1..Len(statted) :
          /\ statted[i] # ""
          /\ statted[i] = IF EnvConfigPath # "" THEN EnvConfigPath
                          ELSE ConfigFlagValue(args)
    /\ \A i \in 1..Len(opened) :
          opened[i] = IF EnvConfigPath # "" THEN EnvConfigPath
                      ELSE ConfigFlagValue(args)
    /\ PathResolved => cfgPath = ExpectedPath
    /\ Terminal /\ EnvConfigPath # "" => statted = <<EnvConfigPath>>
    /\ Terminal /\ EnvConfigPath = "" /\ ~CommandLineRejected(args)
         /\ ConfigFlagValue(args) # "" => statted = <<ConfigFlagValue(args)>>

\* CONFIG_PATH names a missing file, the flag names a good one: the run
\* ends on the CONFIG_PATH file without a look at the flag.
C2_Witness ==
    /\ pc = "terminated"
    /\ EnvConfigPath = "a.yaml"
    /\ args = <<"-config", "b.yaml">>
    /\ fs["a.yaml"].state = "missing"
    /\ fs["b.yaml"].state = "ok"
    /\ statted = <<"a.yaml">>
    /\ ~flagParsed

\* C3: whenever ENV is set and the load succeeds, the returned Env is the
\* value of ENV, not the file's env.
C3_EnvOverridesFile ==
    pc = "loaded" /\ EnvOverride.set => result.Env = EnvOverride.val

C3_Witness ==
    /\ pc = "loaded"
    /\ EnvOverride = SetTo("staging")
    /\ fs[cfgPath].env = "prod"
    /\ result.Env = "staging"

\* C4: if a required field (Env or StoragePath) is empty after YAML parsing
\* and environment override, MustLoad ends the process with a diagnostic
\* naming a missing field and returns no Config.
C4_EmptyRequiredTerminates ==
    (/\ Terminal
     /\ opened # <<>>
     /\ fs[cfgPath].state = "ok"
     /\ RequiredFieldEmpty(fs[cfgPath]))
    => /\ pc = "terminated"
       /\ result = Nil
       /\ \E fld \in RequiredFields :
             stderr = <<MsgCannotRead(ErrRequired(fld))>>

\* The four failure conditions of MustLoad, read off the inputs; "no path"
\* on the command lines the flag package accepts, where MustLoad itself
\* makes the decision.
C5_NoPath ==
    /\ EnvConfigPath = ""
    /\ ~CommandLineRejected(args)
    /\ ConfigFlagAbsentOrEmpty(args)

C5_FileState(s) == ExpectedPath # "" /\ fs[ExpectedPath].state \in s

C5_AnyFailure ==
    \/ C5_NoPath
    \/ C5_FileState({"missing"})
    \/ C5_FileState({"unreadable", "malformed"})
    \/ C5_FileState({"ok"}) /\ RequiredFieldEmpty(fs[ExpectedPath])

\* C5: all or nothing.  In each of the four failure conditions (no path,
\* file does not exist, parse failure, required field missing) the process
\* ends with exit code 1 and no Config is returned; a Config is returned
\* only when none of the four holds.
C5_AllOrNothing ==
    /\ pc = "loaded" => result # Nil /\ exit = <<>> /\ ~C5_AnyFailure
    /\ Terminal /\ C5_AnyFailure =>
          pc = "terminated" /\ exit = <<1>> /\ result = Nil

C6_Message ==
    "Config path is not set. Use CONFIG_PATH env or -config flag"

\* C6 (as stated): with CONFIG_PATH empty or unset and the -config flag
\* absent or empty, MustLoad ends with the "Config path is not set" message
\* and no file is stat'ed or read.
C6_NoPathMessage ==
    EnvConfigPath = "" /\ ConfigFlagAbsentOrEmpty(args) =>
        \/ pc \in {"start", "flags"} /\ statted = <<>> /\ opened = <<>>
        \/ /\ pc = "terminated"
           /\ stderr = <<C6_Message>>
           /\ statted = <<>>
           /\ opened = <<>>

\* C6 (amended): the same, for a command line the flag package accepts; on
\* a command line it rejects the process ends in flag.Parse instead.
C6_NoPathMessageWhenParsed ==
    EnvConfigPath = "" /\ ConfigFlagAbsentOrEmpty(args)
      /\ ~CommandLineRejected(args) =>
        \/ pc \in {"start", "flags"} /\ statted = <<>> /\ opened = <<>>
        \/ /\ pc = "terminated"
           /\ stderr = <<C6_Message>>
           /\ exit = <<1>>
           /\ statted = <<>>
           /\ opened = <<>>
           /\ result = Nil

C6_Witness ==
    /\ pc = "terminated"
    /\ environ["CONFIG_PATH"] = SetTo("")
    /\ args = <<"-config", "">>
    /\ flagParsed
    /\ stderr = <<MsgNoPath>>

\* C7: once a path is resolved and no file exists there, MustLoad ends with
\* "Config file does not exist: " followed by exactly that path, and the
\* file is never handed to the parser.
C7_MissingFileMessage ==
    PathResolved /\ fs[cfgPath].state = "missing" =>
        /\ cfgPath = ExpectedPath
        /\ opened = <<>>
        /\ cfg = Nil
        /\ \/ pc = "stat" /\ stderr = <<>>
           \/ /\ pc = "terminated"
              /\ stderr = <<"Config file does not exist: " \o ExpectedPath>>
              /\ exit = <<1>>
              /\ result = Nil

C7_Witness ==
    /\ pc = "terminated"
    /\ EnvConfigPath = ""
    /\ args = <<"-config", "b.yaml">>
    /\ fs["b.yaml"].state = "missing"
    /\ fs["a.yaml"].state = "ok"
    /\ statted = <<"b.yaml">>
    /\ stderr = <<"Config file does not exist: b.yaml">>

\* C8: on every successful load the Config is the file mapped field by
\* field: StoragePath is storage_path, Addr is http_server.addr ("" when
\* absent, which does not fail the load), Env is env unless ENV is set; no
\* variable other than ENV changes a field.
C8_FieldsFromFile ==
    /\ pc = "loaded" =>
          /\ opened = <<cfgPath>>
          /\ fs[cfgPath].state = "ok"
          /\ result.StoragePath = fs[cfgPath].storage_path
          /\ result.Addr = fs[cfgPath].addr
          /\ ~EnvOverride.set => result.Env = fs[cfgPath].env
    /\ (/\ Terminal
        /\ opened # <<>>
        /\ fs[cfgPath].state = "ok"
        /\ fs[cfgPath].storage_path # ""
        /\ EnvOverride.set \/ fs[cfgPath].env # "") => pc = "loaded"

C8_Witness ==
    /\ pc = "loaded"
    /\ ~EnvOverride.set
    /\ environ["STORAGE_PATH"] = SetTo("/env")
    /\ fs[cfgPath].addr = ""
    /\ result = [Env |-> "prod", StoragePath |-> "/data", Addr |-> ""]

C10_StageOf(msg) ==
    IF msg = MsgNoPath \/ msg \in {FlagParse(a).err : a \in CommandLines}
    THEN "resolve"
    ELSE IF msg \in {MsgNotExist(p) : p \in Paths}
    THEN "exists"
    ELSE IF msg \in {MsgCannotRead(ErrOpen(p)) : p \in Paths}
                    \cup {MsgCannotRead(ErrParse)}
    THEN "parse"
    ELSE IF msg \in {MsgCannotRead(ErrRequired(fld)) : fld \in RequiredFields}
    THEN "validate"
    ELSE "none"

C10_EarliestFailingStage ==
    IF ExpectedPath = "" THEN "resolve"
    ELSE IF fs[ExpectedPath].state = "missing" THEN "exists"
    ELSE IF fs[ExpectedPath].state \in {"unreadable", "malformed"}
    THEN "parse"
    ELSE "validate"

C10_StageOrder ==
    { <<"start", "flags">>, <<"start", "stat">>, <<"flags", "stat">>,
      <<"flags", "terminated">>, <<"stat", "read">>,
      <<"stat", "terminated">>, <<"read", "return">>,
      <<"read", "terminated">>, <<"return", "loaded">> }

C10_OneDiagnostic ==
    /\ pc = "terminated" =>
          /\ Len(stderr) = 1
          /\ Len(exit) = 1
          /\ result = Nil
          /\ C10_StageOf(stderr[1]) = C10_EarliestFailingStage
    /\ pc # "terminated" => stderr = <<>> /\ exit = <<>>
    /\ pc = "loaded" <=> result # Nil
    /\ pc \in {"start", "flags"} => statted = <<>>
    /\ pc \in {"start", "flags", "stat"} => opened = <<>> /\ cfg = Nil

\* C10: the stages run in the order path resolution, existence check,
\* parse with override and validation, and the run stops at the first one
\* that fails: a failed run emits exactly one diagnostic, that of the
\* earliest failing stage, and every run ends in exactly one of Loaded and
\* Terminated.
C10_StagesInOrder ==
    /\ []C10_OneDiagnostic
    /\ [][pc' # pc => <<pc, pc'>> \in C10_StageOrder]_vars
    /\ <>Terminal

\* The file is missing and, ENV being unset, validation could not pass
\* either: the one diagnostic is the does-not-exist message.
C10_Witness ==
    /\ pc = "terminated"
    /\ ~EnvOverride.set
    /\ EnvConfigPath = "a.yaml"
    /\ fs["a.yaml"].state = "missing"
    /\ stderr = <<MsgNotExist("a.yaml")>>
    /\ opened = <<>>

=============================================================================
